---- MODULE Spec2Model ----
(***************************************************************************)
(* Model of examples/adapters/notify.py: the Breakpoint event notification *)
(* adapter.  notify() builds an event, POSTs it once with requests.post    *)
(* (timeout 10), calls raise_for_status() and returns resp.json().  The    *)
(* __main__ block is the command-line entry point.                         *)
(*                                                                         *)
(* A thread of the calling program is in one of the states                 *)
(*   Idle -> Sending -> Succeeded | Failed -> (Return) Idle.               *)
(* The request and the response are messages in flight between the client  *)
(* and the service; the service and the network are the environment.       *)
(***************************************************************************)
EXTENDS Integers, Sequences, FiniteSets, TLC

\* ---------------------------------------------------------------- bounds
NThreads == 2
MaxCalls == 2
MaxClock == 2
TickMicros == 500

\* ------------------------------------------------------ program constants
TIMEOUT == 10
MsPerSec == 1000
MicrosPerSec == 1000000
HttpErrorMin == 400
HttpErrorMax == 600

Threads == 1 .. NThreads
\* The thread that runs a single-threaded program.
MainThread == CHOOSE t \in Threads : \A u \in Threads : t <= u

DefaultUrl == "http://localhost:8080"
DefaultToken == ""
\* A different parameter default.
OtherDefaultEventType == "info"
DefaultEventType == "custom"
DefaultPriority == "ambient"
Source == "python-adapter"
EventsPath == "/api/v1/events"

\* The environment the module is loaded in: os.environ.get(name, default).
Configs ==
    { [url |-> DefaultUrl, token |-> DefaultToken],
      [url |-> "https://bp.example", token |-> "s3cret"] }

\* ------------------------------------------------------------- inputs
Omitted == "<omitted>"
Titles == {"Deploy finished", ""}
EventTypes == {"pipeline.failed"}
Priorities == {"urgent"}
ProgName == "notify.py"

NoMsg == <<>>

ReservedKeys == {"id", "event_type", "source", "priority", "title", "timestamp"}

\* A caller-supplied id and timestamp (any JSON-serializable value).
CallerId == <<"caller", 0>>
CallerTimestamp == [sec |-> 0, usec |-> 0, frac |-> FALSE, zone |-> "+02:00"]

\* **kwargs of a call.  Python binds title, event_type and priority to the
\* named parameters, so they never appear in kwargs.
KwargsSet ==
    { NoMsg,
      ("body" :> "details"),
      ("id" :> CallerId),
      ("source" :> "spoof") @@ ("timestamp" :> CallerTimestamp) }

\* ------------------------------------------------------------- clock
\* The system clock in microseconds since the epoch.
NowMicros(t) == t * TickMicros

\* f"py-{int(datetime.datetime.now().timestamp() * 1000)}"
EventId(t) == <<"py", (NowMicros(t) * MsPerSec) \div MicrosPerSec>>

\* datetime.isoformat(): seconds, and the microseconds only when non-zero.
IsoFormat(t) ==
    [sec |-> NowMicros(t) \div MicrosPerSec,
     usec |-> NowMicros(t) % MicrosPerSec,
     frac |-> (NowMicros(t) % MicrosPerSec) # 0]

\* datetime.datetime.utcnow().isoformat() + "Z"
Timestamp(t) == IsoFormat(t) @@ [zone |-> "Z"]

\* The instant a timestamp string denotes, in microseconds (offset ignored).
TsMicros(ts) == ts.sec * MicrosPerSec + (IF ts.frac THEN ts.usec ELSE 0)

\* ------------------------------------------------------------- payload
\* The dict literal of the json= argument: the six fields first, then
\* **kwargs unpacked after them, so a later key replaces an earlier one.
BaseFields(title, event_type, priority, tId, tTs) ==
    [k \in ReservedKeys |->
        CASE k = "id" -> EventId(tId)
          [] k = "event_type" -> event_type
          [] k = "source" -> Source
          [] k = "priority" -> priority
          [] k = "title" -> title
          [] k = "timestamp" -> Timestamp(tTs)]

Merge(base, kwargs) ==
    [k \in DOMAIN base \cup DOMAIN kwargs |->
        IF k \in DOMAIN kwargs THEN kwargs[k] ELSE base[k]]

Payload(title, event_type, priority, kwargs, tId, tTs) ==
    Merge(BaseFields(title, event_type, priority, tId, tTs), kwargs)

\* Parameter defaults of def notify(title, event_type="custom", priority="ambient").
BindEventType(x) == IF x = Omitted THEN DefaultEventType ELSE x
BindPriority(x) == IF x = Omitted THEN DefaultPriority ELSE x

Request(cfg, payload) ==
    [url |-> <<cfg.url, EventsPath>>,
     headers |-> [Authorization |-> <<"Bearer", cfg.token>>],
     json |-> payload,
     timeout |-> TIMEOUT]

\* ------------------------------------------------------------- responses
Ack1 == [accepted |-> 1, event_ids |-> <<"abc">>]
Ack0 == [accepted |-> 0, event_ids |-> <<>>]
NoAccepted == [event_ids |-> <<"abc">>]
JsonBody(doc) == [isJson |-> TRUE, doc |-> doc]
TextBody == [isJson |-> FALSE, doc |-> NoMsg]
Bodies == {TextBody, JsonBody(Ack1), JsonBody(Ack0), JsonBody(NoAccepted)}
\* What the service may answer: any body with 200, and a 304 and a 401.
Responses ==
    [status : {200}, body : Bodies]
      \cup [status : {304}, body : {TextBody, JsonBody(Ack1)}]
      \cup [status : {401}, body : {TextBody}]
ConcResponses == {[status |-> 200, body |-> JsonBody(Ack1)], [status |-> 401, body |-> TextBody]}

\* Response.raise_for_status(): raises HTTPError for 4xx and 5xx only.
RaisesForStatus(status) == HttpErrorMin <= status /\ status < HttpErrorMax

Outcome(kind, status, value) == [kind |-> kind, status |-> status, value |-> value]

\* resp.raise_for_status(); return resp.json()
Interpret(r) ==
    IF RaisesForStatus(r.status) THEN Outcome("HTTPError", r.status, NoMsg)
    ELSE IF ~r.body.isJson THEN Outcome("JSONDecodeError", r.status, NoMsg)
    ELSE Outcome("ok", r.status, r.body.doc)

PcOf(o) == IF o.kind = "ok" THEN "Succeeded" ELSE "Failed"

\* ------------------------------------------------------------- state
VARIABLES
    config,     \* BREAKPOINT_URL and BREAKPOINT_TOKEN, read at import
    runAsMain,  \* __name__ == "__main__"
    argv,       \* sys.argv
    exit,       \* <<>> while the process runs, <<code>> once the script ended
    stdout,     \* what the script printed
    clock,      \* the system clock, in ticks of TickMicros
    pc,         \* per thread: Idle, Sending, Succeeded, Failed
    frame,      \* per thread: the call in progress (arguments, clock readings)
    req,        \* per thread: the request in flight to the service
    resp,       \* per thread: the response in flight to / read by the client
    outcome,    \* per thread: what notify returned or raised
    log,        \* the POSTs handed to requests.post, in order, and whether
                \* the service received them
    ncalls      \* invocations of notify so far

vars == <<config, runAsMain, argv, exit, stdout, clock, pc, frame, req, resp,
          outcome, log, ncalls>>

ArgvSet ==
    {<<ProgName>>}
      \cup {<<ProgName, t>> : t \in Titles}
      \cup {<<ProgName, t, e>> : t \in Titles, e \in EventTypes}
      \cup {<<ProgName, t, e, p>> : t \in Titles, e \in EventTypes, p \in Priorities}

Init ==
    /\ config \in Configs
    /\ runAsMain \in BOOLEAN
    /\ argv \in (IF runAsMain THEN ArgvSet ELSE {<<ProgName>>})
    /\ exit = <<>>
    /\ stdout = <<>>
    /\ clock = 0
    /\ pc = [t \in Threads |-> "Idle"]
    /\ frame = [t \in Threads |-> NoMsg]
    /\ req = [t \in Threads |-> NoMsg]
    /\ resp = [t \in Threads |-> NoMsg]
    /\ outcome = [t \in Threads |-> NoMsg]
    /\ log = <<>>
    /\ ncalls = 0

\* The importing program is multi-threaded only as a library.
ConcInit == Init /\ ~runAsMain

\* ------------------------------------------------------------- actions
\* The system clock advances.
Tick ==
    /\ clock < MaxClock
    /\ clock' = clock + 1
    /\ UNCHANGED <<config, runAsMain, argv, exit, stdout, pc, frame, req, resp,
                   outcome, log, ncalls>>

\* notify building its payload in one module-level dict that every request
\* in flight refers to.
NotifyShared(t, title, event_type, priority, kwargs, d) ==
    /\ pc[t] = "Idle"
    /\ exit = <<>>
    /\ ncalls < MaxCalls
    /\ clock + d <= MaxClock
    /\ LET payload == Payload(title, BindEventType(event_type),
                              BindPriority(priority), kwargs, clock, clock + d)
           r == Request(config, payload)
       IN /\ req' = [u \in Threads |->
                        IF u = t \/ req[u] # NoMsg THEN r ELSE NoMsg]
          /\ log' = Append(log, [call |-> ncalls + 1, delivered |-> FALSE,
                                 url |-> r.url,
                                 id |-> payload["id"],
                                 timestamp |-> payload["timestamp"]])
    /\ frame' = [frame EXCEPT ![t] =
                    [call |-> ncalls + 1, title |-> title,
                     event_type |-> event_type, priority |-> priority,
                     kwargs |-> kwargs, tId |-> clock, tTs |-> clock + d]]
    /\ clock' = clock + d
    /\ pc' = [pc EXCEPT ![t] = "Sending"]
    /\ ncalls' = ncalls + 1
    /\ UNCHANGED <<config, runAsMain, argv, exit, stdout, resp, outcome>>

\* notify(title, event_type, priority, **kwargs) up to the blocking POST.
\* The clock is read twice (id, then timestamp) and may advance by d between.
Notify(t, title, event_type, priority, kwargs, d) ==
    /\ pc[t] = "Idle"
    /\ exit = <<>>
    /\ ncalls < MaxCalls
    /\ clock + d <= MaxClock
    /\ LET payload == Payload(title, BindEventType(event_type),
                              BindPriority(priority), kwargs, clock, clock + d)
           r == Request(config, payload)
       IN /\ req' = [req EXCEPT ![t] = r]
          /\ log' = Append(log, [call |-> ncalls + 1, delivered |-> FALSE,
                                 url |-> r.url,
                                 id |-> payload["id"],
                                 timestamp |-> payload["timestamp"]])
    /\ frame' = [frame EXCEPT ![t] =
                    [call |-> ncalls + 1, title |-> title,
                     event_type |-> event_type, priority |-> priority,
                     kwargs |-> kwargs, tId |-> clock, tTs |-> clock + d]]
    /\ clock' = clock + d
    /\ pc' = [pc EXCEPT ![t] = "Sending"]
    /\ ncalls' = ncalls + 1
    /\ UNCHANGED <<config, runAsMain, argv, exit, stdout, resp, outcome>>

\* A direct call by a program that imported the module.
Call(t, title, event_type, priority, kwargs, d) ==
    /\ ~runAsMain
    /\ Notify(t, title, event_type, priority, kwargs, d)

\* The __main__ block up to the call of notify.
Main(t, d) ==
    /\ runAsMain
    /\ ncalls = 0
    /\ pc[t] = "Idle"
    /\ exit = <<>>
    /\ IF Len(argv) < 2
       THEN /\ d = 0
            /\ exit' = <<1>>
            /\ stdout' = <<"Usage", argv[1]>>
            /\ UNCHANGED <<config, runAsMain, argv, clock, pc, frame, req, resp,
                           outcome, log, ncalls>>
       ELSE Notify(t, argv[2],
                   IF Len(argv) > 2 THEN argv[3] ELSE "custom",
                   IF Len(argv) > 3 THEN argv[4] ELSE "ambient",
                   NoMsg, d)

\* The service receives the request and answers it.
ServiceRespond(t, r) ==
    /\ req[t] # NoMsg
    /\ resp[t] = NoMsg
    /\ resp' = [resp EXCEPT ![t] = r]
    /\ req' = [req EXCEPT ![t] = NoMsg]
    /\ log' = [i \in DOMAIN log |->
                 IF log[i].call = frame[t].call
                 THEN [log[i] EXCEPT !.delivered = TRUE] ELSE log[i]]
    /\ UNCHANGED <<config, runAsMain, argv, exit, stdout, clock, pc, frame,
                   outcome, ncalls>>

\* requests.post returns the response; raise_for_status(); return resp.json().
Receive(t) ==
    /\ pc[t] = "Sending"
    /\ resp[t] # NoMsg
    /\ outcome' = [outcome EXCEPT ![t] = Interpret(resp[t])]
    /\ pc' = [pc EXCEPT ![t] = PcOf(Interpret(resp[t]))]
    /\ frame' = [frame EXCEPT ![t] = NoMsg]
    /\ UNCHANGED <<config, runAsMain, argv, exit, stdout, clock, req, resp,
                   log, ncalls>>

\* requests.post raises ConnectionError: the request never reached the service.
ConnectFail(t) ==
    /\ pc[t] = "Sending"
    /\ req[t] # NoMsg
    /\ outcome' = [outcome EXCEPT ![t] = Outcome("ConnectionError", 0, NoMsg)]
    /\ pc' = [pc EXCEPT ![t] = "Failed"]
    /\ req' = [req EXCEPT ![t] = NoMsg]
    /\ frame' = [frame EXCEPT ![t] = NoMsg]
    /\ UNCHANGED <<config, runAsMain, argv, exit, stdout, clock, resp, log, ncalls>>

\* A POST without timeout=: the read blocks for as long as the service is silent.
TimeoutNever(t) ==
    /\ FALSE
    /\ UNCHANGED vars

\* A POST that is sent again when the timeout expires.
TimeoutRetry(t) ==
    /\ pc[t] = "Sending"
    /\ Len(log) <= MaxCalls
    /\ log' = Append(log, [call |-> frame[t].call, delivered |-> FALSE,
                           url |-> <<config.url, EventsPath>>,
                           id |-> EventId(frame[t].tId),
                           timestamp |-> Timestamp(frame[t].tTs)])
    /\ UNCHANGED <<config, runAsMain, argv, exit, stdout, clock, pc, frame, req,
                   resp, outcome, ncalls>>

\* requests.post raises Timeout: nothing was read within timeout=10.
Timeout(t) ==
    /\ pc[t] = "Sending"
    /\ outcome' = [outcome EXCEPT ![t] = Outcome("Timeout", 0, NoMsg)]
    /\ pc' = [pc EXCEPT ![t] = "Failed"]
    /\ req' = [req EXCEPT ![t] = NoMsg]
    /\ resp' = [resp EXCEPT ![t] = NoMsg]
    /\ frame' = [frame EXCEPT ![t] = NoMsg]
    /\ UNCHANGED <<config, runAsMain, argv, exit, stdout, clock, log, ncalls>>

\* The caller has the result or the exception; nothing of the call remains.
Return(t) ==
    /\ ~runAsMain
    /\ pc[t] \in {"Succeeded", "Failed"}
    /\ pc' = [pc EXCEPT ![t] = "Idle"]
    /\ outcome' = [outcome EXCEPT ![t] = NoMsg]
    /\ resp' = [resp EXCEPT ![t] = NoMsg]
    /\ UNCHANGED <<config, runAsMain, argv, exit, stdout, clock, frame, req,
                   log, ncalls>>

\* The __main__ block after notify: print the acknowledgment, or die of the
\* uncaught exception (exit status 1).
MainExit(t) ==
    /\ runAsMain
    /\ exit = <<>>
    /\ pc[t] \in {"Succeeded", "Failed"}
    /\ LET o == outcome[t]
           printable == /\ o.kind = "ok"
                        /\ "accepted" \in DOMAIN o.value
                        /\ "event_ids" \in DOMAIN o.value
       IN IF printable
          THEN /\ stdout' = <<"Accepted", o.value["accepted"], o.value["event_ids"]>>
               /\ exit' = <<0>>
          ELSE /\ stdout' = stdout
               /\ exit' = <<1>>
    /\ UNCHANGED <<config, runAsMain, argv, clock, pc, frame, req, resp, outcome,
                   log, ncalls>>

\* ------------------------------------------------------------- specifications
\* A single-threaded caller: one call after the other.
Next ==
    \/ Tick
    \/ \E d \in {0, 1} : Main(MainThread, d)
    \/ \E title \in Titles, e \in EventTypes \cup {Omitted},
          p \in Priorities \cup {Omitted}, kw \in KwargsSet, d \in {0, 1} :
            Call(MainThread, title, e, p, kw, d)
    \/ \E r \in Responses : ServiceRespond(MainThread, r)
    \/ Receive(MainThread)
    \/ ConnectFail(MainThread)
    \/ Timeout(MainThread)
    \/ Return(MainThread)
    \/ MainExit(MainThread)

Spec == Init /\ [][Next]_vars

\* The blocking POST ends: a response is read, or the timeout expires.
Complete(t) == Receive(t) \/ Timeout(t)

\* The single-threaded caller passing a title only.  requests bounds the
\* blocking read by timeout=10, so a call that is Sending does not stay there.
FairNext ==
    \/ Tick
    \/ \E d \in {0, 1} : Main(MainThread, d)
    \/ \E title \in Titles, d \in {0, 1} :
            Call(MainThread, title, Omitted, Omitted, NoMsg, d)
    \/ \E r \in Responses : ServiceRespond(MainThread, r)
    \/ Receive(MainThread)
    \/ ConnectFail(MainThread)
    \/ Timeout(MainThread)
    \/ Return(MainThread)
    \/ MainExit(MainThread)

FairSpec == Init /\ [][FairNext]_vars /\ WF_vars(Complete(MainThread))

\* Several threads of one program call notify concurrently.
ConcNext ==
    \/ Tick
    \/ \E t \in Threads, title \in Titles, d \in {0, 1} :
            Call(t, title, Omitted, Omitted, NoMsg, d)
    \/ \E t \in Threads, r \in ConcResponses : ServiceRespond(t, r)
    \/ \E t \in Threads : Receive(t)
    \/ \E t \in Threads : ConnectFail(t)
    \/ \E t \in Threads : Timeout(t)
    \/ \E t \in Threads : Return(t)

ConcSpec == ConcInit /\ [][ConcNext]_vars

\* ------------------------------------------------------------- properties
Terminal == {"Succeeded", "Failed"}
Is2xx(status) == 200 <= status /\ status < 300
\* The acknowledgment structure {accepted: integer, event_ids: sequence}.
IsAck(body) ==
    /\ body.isJson
    /\ DOMAIN body.doc = {"accepted", "event_ids"}
\* requests' exceptions for a connection that failed or timed out.
TransportErrors == {"ConnectionError", "Timeout"}
\* The client read the response of thread t's request.
Answered(t) == pc[t] \in Terminal /\ resp[t] # NoMsg

\* C1: in every request in flight, id, event_type, source, priority, title and
\* timestamp hold the values the client generated or was passed as parameters,
\* whatever the extension fields are.
C1_ReservedFieldsWin ==
    \A t \in Threads :
        req[t] # NoMsg =>
            LET p == req[t].json
                f == frame[t]
            IN /\ p["id"] = EventId(f.tId)
               /\ p["event_type"] = BindEventType(f.event_type)
               /\ p["source"] = Source
               /\ p["priority"] = BindPriority(f.priority)
               /\ p["title"] = f.title
               /\ p["timestamp"] = Timestamp(f.tTs)

\* C2: the client-generated ids of any two POSTs of one process differ.
C2_IdsDistinct ==
    \A i, j \in DOMAIN log :
        (/\ i # j
         /\ log[i].delivered /\ log[j].delivered
         /\ log[i].id[1] = "py" /\ log[j].id[1] = "py")
            => log[i].id # log[j].id

\* C3: a call answered with a non-2xx status ends Failed with an HTTPError
\* carrying that status.
C3_Non2xxIsProtocolError ==
    \A t \in Threads :
        (Answered(t) /\ ~Is2xx(resp[t].status)) =>
            /\ pc[t] = "Failed"
            /\ outcome[t].kind = "HTTPError"
            /\ outcome[t].status = resp[t].status

\* C4: a call answered with a 2xx status and a body that is not the
\* acknowledgment structure ends Failed with a decode error.
C4_MalformedAckIsDecodeError ==
    \A t \in Threads :
        (Answered(t) /\ Is2xx(resp[t].status) /\ ~IsAck(resp[t].body)) =>
            /\ pc[t] = "Failed"
            /\ outcome[t].kind = "JSONDecodeError"

C6_CallTerminates ==
    /\ [][\A t \in Threads :
            pc'[t] # pc[t] =>
                \/ pc[t] = "Idle" /\ pc'[t] = "Sending"
                \/ pc[t] = "Sending" /\ pc'[t] \in Terminal
                \/ pc[t] \in Terminal /\ pc'[t] = "Idle"]_vars
    /\ [][\A t \in Threads :
            (pc[t] = "Sending" /\ resp[t] = NoMsg /\ pc'[t] # "Sending") =>
                /\ pc'[t] = "Failed"
                /\ outcome'[t].kind \in TransportErrors]_vars
    /\ \A t \in Threads : (pc[t] = "Sending") ~> (pc[t] \in Terminal)

C6_Witness ==
    \E t \in Threads :
        /\ pc[t] = "Failed"
        /\ outcome[t].kind = "Timeout"
        /\ log # <<>>

\* C7: a call that ends Succeeded on a well-formed acknowledgment was
\* acknowledged at least one event.
C7_SuccessAcceptsOne ==
    \A t \in Threads :
        (pc[t] = "Succeeded" /\ Answered(t) /\ Is2xx(resp[t].status)
            /\ IsAck(resp[t].body)) =>
                outcome[t].value.accepted >= 1

\* C8: every transmitted timestamp is in UTC and not earlier than the
\* timestamp of any event transmitted by an earlier call.
C8_TimestampsMonotonic ==
    \A i \in DOMAIN log :
        log[i].delivered =>
            /\ log[i].timestamp.zone = "Z"
            /\ \A j \in DOMAIN log :
                   (i < j /\ log[j].delivered) =>
                       TsMicros(log[i].timestamp) <= TsMicros(log[j].timestamp)

\* C9: a call that omits event_type and priority, directly or from the
\* command line with only a title, transmits event_type "custom" and
\* priority "ambient".
C9_Defaults ==
    \A t \in Threads :
        (/\ req[t] # NoMsg
         /\ \/ frame[t].event_type = Omitted /\ frame[t].priority = Omitted
            \/ runAsMain /\ Len(argv) = 2) =>
            /\ req[t].json["event_type"] = "custom"
            /\ req[t].json["priority"] = "ambient"
            /\ req[t].json["title"] = frame[t].title

C9_Witness ==
    \E t \in Threads :
        /\ req[t] # NoMsg
        /\ frame[t].event_type = Omitted
        /\ frame[t].priority = Omitted
        /\ frame[t].kwargs # NoMsg
        /\ req[t].json["title"] = ""

\* C10: with concurrent calls, no step changes the configuration, every request
\* in flight carries the payload of its own call and the configured URL and
\* token, and every answered call's outcome is that of its own response.
C10_Independent ==
    /\ [][config' = config]_vars
    /\ [](\A t \in Threads :
            /\ req[t] # NoMsg =>
                 /\ req[t].json["title"] = frame[t].title
                 /\ req[t].json["id"] = EventId(frame[t].tId)
                 /\ req[t].json["timestamp"] = Timestamp(frame[t].tTs)
                 /\ req[t].url = <<config.url, EventsPath>>
                 /\ req[t].headers.Authorization = <<"Bearer", config.token>>
            /\ Answered(t) =>
                 /\ (outcome[t].kind = "ok") = (resp[t].status = 200)
                 /\ (outcome[t].kind = "HTTPError") = (resp[t].status = 401)
                 /\ outcome[t].status = resp[t].status)

C10_Witness ==
    \E t, u \in Threads :
        /\ t # u
        /\ pc[t] = "Succeeded"
        /\ pc[u] = "Sending"
        /\ req[u] # NoMsg
        /\ frame[u].call = 1
        /\ frame[u].title # ""
        /\ resp[t].status = 200

====
